---- MODULE Spec2Model ----
(***************************************************************************)
(* myFlix backend: the user routes of src/index.js over the User model of  *)
(* src/models.js.  The users collection is a sequence of documents in      *)
(* natural (insertion) order; a query {Username: x} matches the first      *)
(* document whose Username is x.  Every action is one HTTP request handled *)
(* from start to finish; resp records the request and its response.  A     *)
(* protected route is passport.authenticate first and its handler, over    *)
(* the route parameters and the body, only when the token verified.        *)
(*                                                                         *)
(* Strings that the code inspects character by character (Username,        *)
(* Password, Email) are sequences of one-character strings.                *)
(*                                                                         *)
(* The module also covers POST /upload and exports.handler, the function   *)
(* that resizes the images of the bucket, and the routes whose requests    *)
(* overlap between two awaits.                                             *)
(***************************************************************************)
EXTENDS Integers, Sequences, FiniteSets, TLC

VARIABLES users, nextId, resp, bucket, invocations, upload, requests

\* The object store side: the bucket, the invocations of exports.handler
\* and the last answer of POST /upload.
imageVars == <<bucket, invocations, upload>>

vars == <<users, nextId, resp, imageVars, requests>>

(***************************************************************************)
(* Bounds of the model.                                                    *)
(***************************************************************************)
\* Number of documents the store ever assigns an _id to.
MaxId == 2
\* Longest FavoriteMovies list.
MaxFavs == 2

(***************************************************************************)
(* Request inputs.                                                         *)
(***************************************************************************)
alice == <<"a", "l", "i", "c", "e">>
bobby == <<"b", "o", "b", "b", "y">>
\* shorter than 5 characters
bob == <<"b", "o", "b">>
\* 5 characters, one of them not alphanumeric
al_ce == <<"a", "l", "_", "c", "e">>

Usernames == {alice, bobby, bob, al_ce}

pw1 == <<"p", "w", "1">>
Passwords == {pw1, <<>>}

goodEmail == <<"a", "@", "b", ".", "c">>
badEmail == <<"a", "b">>
Emails == {goodEmail, badEmail}

Birthdays == {"1990-01-01"}

\* Well-formed ObjectId strings of req.params.MovieID.
MovieIDs == {"m1", "m2"}

AlphanumericChars ==
    {"a", "b", "c", "e", "i", "l", "o", "p", "w", "y", "1"}

(***************************************************************************)
(* express-validator checks.                                               *)
(***************************************************************************)
\* .isLength({min: 5})
MinUsernameLength == 5

isLength(s, min) == Len(s) >= min

\* .isAlphanumeric(): /^[0-9A-Z]+$/i
isAlphanumeric(s) ==
    /\ Len(s) > 0
    /\ \A i \in 1..Len(s) : s[i] \in AlphanumericChars

\* .isEmpty()
isEmpty(s) == Len(s) = 0

\* .isEmail(): one "@", a non-empty local part, a dotted domain
isEmail(s) ==
    \E at \in 1..Len(s) :
        /\ s[at] = "@"
        /\ \A j \in 1..Len(s) : s[j] = "@" => j = at
        /\ at > 1
        /\ \E dot \in (at + 2)..(Len(s) - 1) : s[dot] = "."

\* UsernameErrors without its isAlphanumeric chain.
UsernameErrors_LengthOnly(Username) ==
    IF isLength(Username, MinUsernameLength) THEN {} ELSE {"Username is required"}

\* The two Username chains shared by every /users route.
UsernameErrors(Username) ==
    (IF isLength(Username, MinUsernameLength) THEN {} ELSE {"Username is required"})
    \cup (IF isAlphanumeric(Username) THEN {}
          ELSE {"Username contains non alphanumeric characters - not allowed."})

\* The chains of POST /users and PUT /users/:Username over the request body.
BodyErrors(body) ==
    UsernameErrors(body.Username)
    \cup (IF ~isEmpty(body.Password) THEN {} ELSE {"Password is required"})
    \cup (IF isEmail(body.Email) THEN {} ELSE {"Email does not appear to be valid"})

Bodies ==
    [Username : Usernames, Password : Passwords, Email : Emails, Birthday : Birthdays]

(***************************************************************************)
(* models.js                                                               *)
(***************************************************************************)
BcryptPrefix == "$2b$10$"

\* bcrypt.hashSync(password, 10): the digest is a function of the password
\* (the salt is left out), and it is never the password itself.
hashPassword(password) == <<BcryptPrefix>> \o password

\* userSchema: a document of the users collection.
User(id, Username, Password, Email, Birthday, FavoriteMovies) ==
    [_id |-> id, Username |-> Username, Password |-> Password, Email |-> Email,
     Birthday |-> Birthday, FavoriteMovies |-> FavoriteMovies]

(***************************************************************************)
(* Store queries (mongoose).                                               *)
(***************************************************************************)
Matches(Username) == {i \in 1..Len(users) : users[i].Username = Username}

\* Index of the document findOne({Username}) returns; 0 when there is none.
findOne(Username) ==
    IF Matches(Username) = {} THEN 0
    ELSE CHOOSE i \in Matches(Username) : \A j \in Matches(Username) : i <= j

\* RemoveAt that drops the documents after the i-th as well.
RemoveAt_Truncate(s, i) == SubSeq(s, 1, i - 1)

RemoveAt(s, i) == SubSeq(s, 1, i - 1) \o SubSeq(s, i + 1, Len(s))

\* pull that stops at the first element equal to v.
RECURSIVE pull_first(_, _)
pull_first(list, v) ==
    IF list = <<>> THEN <<>>
    ELSE IF Head(list) = v THEN Tail(list)
    ELSE <<Head(list)>> \o pull_first(Tail(list), v)

\* $pull: every element equal to v is removed, the rest keep their order.
RECURSIVE pull(_, _)
pull(list, v) ==
    IF list = <<>> THEN <<>>
    ELSE IF Head(list) = v THEN pull(Tail(list), v)
    ELSE <<Head(list)>> \o pull(Tail(list), v)

\* push with the semantics of $addToSet.
push_addToSet(list, v) ==
    IF \E k \in 1..Len(list) : list[k] = v THEN list ELSE Append(list, v)

\* $push: v goes to the end, whether or not it is in the list already.
push(list, v) == Append(list, v)

(***************************************************************************)
(* Bearer tokens and passport.authenticate('jwt', {session: false}).       *)
(***************************************************************************)
\* A request without an Authorization header.
NoToken == [Username |-> <<>>, signed |-> FALSE]

\* A token carries the Username claim; signed says whether its signature is
\* the server's.  Tokens are issued to registered users only, so the claim
\* of a signed token passed validation when that user registered.  The
\* requests of the model come without a token, with a forged one, or with
\* the token issued to alice (who acts on her own and on others' records).
Tokens ==
    {NoToken, [Username |-> alice, signed |-> FALSE],
     [Username |-> alice, signed |-> TRUE]}

\* verifyToken: the signature decides, the store is not consulted.
verifyToken(token) == token.signed

\* The identity passport attaches as req.user.
Identity(token) == [Username |-> token.Username]

(***************************************************************************)
(* Responses.                                                              *)
(***************************************************************************)
\* kind: "text" (res.send of msg, after the username where the code puts
\* one in front), "json" (res.json of the
\* documents in docs; an empty docs under "json" is the JSON null of a
\* query that matched nothing), "list" (res.json of an array), "errors"
\* (the validation errors), "none" before the first request.
Response(op, token, user, Username, body, MovieID, status, kind, docs, msg, storeOps) ==
    [op |-> op, token |-> token, user |-> user, Username |-> Username, body |-> body,
     MovieID |-> MovieID, status |-> status, kind |-> kind, docs |-> docs, msg |-> msg,
     storeOps |-> storeOps]

\* The body of a request that has none.
NoBody == [Username |-> <<>>, Password |-> <<>>, Email |-> <<>>, Birthday |-> ""]

NoResponse == Response("none", NoToken, <<>>, <<>>, NoBody, "", 0, "none", <<>>, "", <<>>)

\* passport's answer to a request whose token is missing or does not verify:
\* the route handler is not called.
Unauthorized(op, token) ==
    /\ resp' = Response(op, token, <<>>, <<>>, NoBody, "", 401, "text", <<>>,
                        "Unauthorized", <<>>)
    /\ UNCHANGED <<users, nextId, imageVars, requests>>

\* An image as sharp sees it: its format and its size in pixels.  A buffer
\* sharp cannot decode has the format "none".
Image(format, width, height) == [format |-> format, width |-> width, height |-> height]

\* An uploaded file of express-fileupload: req.files.image.
File(name, mimetype, data) == [name |-> name, mimetype |-> mimetype, data |-> data]

\* req.files without an image field.
NoFile == File(<<>>, "", Image("", 0, 0))

\* The answer of POST /upload together with the file it was given.
Upload(file, status, msg) == [file |-> file, status |-> status, msg |-> msg]

NoUpload == Upload(NoFile, 0, "")

Init ==
    /\ users = <<>>
    /\ nextId = 1
    /\ resp = NoResponse
    /\ bucket = {}
    /\ invocations = <<>>
    /\ upload = NoUpload
    /\ requests = <<>>

(***************************************************************************)
(* POST /users                                                             *)
(***************************************************************************)
\* registerUser with the existence check ahead of the validation result.
registerUser_ExistenceFirst(body) ==
    IF findOne(body.Username) # 0
    THEN /\ resp' = Response("registerUser", NoToken, <<>>, <<>>, body, "",
                             400, "text", <<>>, "already exists", <<"findOne">>)
         /\ UNCHANGED <<users, nextId, imageVars, requests>>
    ELSE IF BodyErrors(body) # {}
    THEN /\ resp' = Response("registerUser", NoToken, <<>>, <<>>, body, "",
                             422, "errors", <<>>, "", <<"findOne">>)
         /\ UNCHANGED <<users, nextId, imageVars, requests>>
    ELSE LET user == User(nextId, body.Username, hashPassword(body.Password),
                          body.Email, body.Birthday, <<>>)
         IN /\ nextId <= MaxId
            /\ users' = Append(users, user)
            /\ nextId' = nextId + 1
            /\ resp' = Response("registerUser", NoToken, <<>>, <<>>, body, "",
                                201, "json", <<user>>, "", <<"findOne", "create">>)
            /\ UNCHANGED <<imageVars, requests>>

registerUser(body) ==
    IF BodyErrors(body) # {}
    THEN /\ resp' = Response("registerUser", NoToken, <<>>, <<>>, body, "",
                             422, "errors", <<>>, "", <<>>)
         /\ UNCHANGED <<users, nextId, imageVars, requests>>
    ELSE IF findOne(body.Username) # 0
    THEN /\ resp' = Response("registerUser", NoToken, <<>>, <<>>, body, "",
                             400, "text", <<>>, "already exists", <<"findOne">>)
         /\ UNCHANGED <<users, nextId, imageVars, requests>>
    ELSE LET user == User(nextId, body.Username, hashPassword(body.Password),
                          body.Email, body.Birthday, <<>>)
         IN /\ nextId <= MaxId
            /\ users' = Append(users, user)
            /\ nextId' = nextId + 1
            /\ resp' = Response("registerUser", NoToken, <<>>, <<>>, body, "",
                                201, "json", <<user>>, "", <<"findOne", "create">>)
            /\ UNCHANGED <<imageVars, requests>>

(***************************************************************************)
(* GET /users                                                              *)
(***************************************************************************)
getUsersHandler(token) ==
    /\ resp' = Response("getUsers", token, Identity(token).Username, <<>>, NoBody, "",
                        201, "list", users, "", <<"find">>)
    /\ UNCHANGED <<users, nextId, imageVars, requests>>

getUsers(token) ==
    IF ~verifyToken(token) THEN Unauthorized("getUsers", token)
    ELSE getUsersHandler(token)

(***************************************************************************)
(* GET /users/:Username                                                    *)
(***************************************************************************)
\* The check(...) chains of this route are never read (no validationResult).
getSingleUserHandler(token, Username) ==
    LET i == findOne(Username)
    IN /\ resp' = Response("getSingleUser", token, Identity(token).Username, Username,
                           NoBody, "", 200, "json",
                           IF i = 0 THEN <<>> ELSE <<users[i]>>, "", <<"findOne">>)
       /\ UNCHANGED <<users, nextId, imageVars, requests>>

getSingleUser(token) ==
    IF ~verifyToken(token) THEN Unauthorized("getSingleUser", token)
    ELSE \E Username \in Usernames : getSingleUserHandler(token, Username)

(***************************************************************************)
(* PUT /users/:Username                                                    *)
(***************************************************************************)
\* check('Username', ...) validates every instance of the field in the
\* request: the one of the body and the one of the route parameters.
UpdateErrors(Username, body) == BodyErrors(body) \cup UsernameErrors(Username)

\* setFields as a replacement of the whole document: the list is reset.
setFields_Replace(user, body) ==
    User(user._id, body.Username, body.Password, body.Email, body.Birthday, <<>>)

\* $set of the four submitted fields on the first matching document.
setFields(user, body) ==
    User(user._id, body.Username, body.Password, body.Email, body.Birthday,
         user.FavoriteMovies)

\* UpdateUserHandler without the comparison of req.user with the parameter.
UpdateUserHandler_NoOwnerCheck(token, Username, body) ==
    LET user == Identity(token).Username
        i == findOne(Username)
    IN IF UpdateErrors(Username, body) # {}
       THEN /\ resp' = Response("UpdateUser", token, user, Username, body, "",
                                422, "errors", <<>>, "", <<>>)
            /\ UNCHANGED <<users, nextId, imageVars, requests>>
       ELSE IF i = 0
       THEN /\ resp' = Response("UpdateUser", token, user, Username, body, "",
                                200, "json", <<>>, "", <<"findOneAndUpdate">>)
            /\ UNCHANGED <<users, nextId, imageVars, requests>>
       ELSE /\ users' = [users EXCEPT ![i] = setFields(users[i], body)]
            /\ resp' = Response("UpdateUser", token, user, Username, body, "",
                                200, "json", <<setFields(users[i], body)>>, "",
                                <<"findOneAndUpdate">>)
            /\ UNCHANGED <<nextId, imageVars, requests>>

UpdateUserHandler(token, Username, body) ==
    LET user == Identity(token).Username
        i == findOne(Username)
    IN IF UpdateErrors(Username, body) # {}
       THEN /\ resp' = Response("UpdateUser", token, user, Username, body, "",
                                422, "errors", <<>>, "", <<>>)
            /\ UNCHANGED <<users, nextId, imageVars, requests>>
       ELSE IF user # Username
       THEN /\ resp' = Response("UpdateUser", token, user, Username, body, "",
                                400, "text", <<>>, "Permission denied", <<>>)
            /\ UNCHANGED <<users, nextId, imageVars, requests>>
       ELSE IF i = 0
       THEN /\ resp' = Response("UpdateUser", token, user, Username, body, "",
                                200, "json", <<>>, "", <<"findOneAndUpdate">>)
            /\ UNCHANGED <<users, nextId, imageVars, requests>>
       ELSE /\ users' = [users EXCEPT ![i] = setFields(users[i], body)]
            /\ resp' = Response("UpdateUser", token, user, Username, body, "",
                                200, "json", <<setFields(users[i], body)>>, "",
                                <<"findOneAndUpdate">>)
            /\ UNCHANGED <<nextId, imageVars, requests>>

UpdateUser(token) ==
    IF ~verifyToken(token) THEN Unauthorized("UpdateUser", token)
    ELSE \E Username \in Usernames, body \in Bodies :
            UpdateUserHandler(token, Username, body)

(***************************************************************************)
(* POST /users/:Username/movies/:MovieID                                   *)
(***************************************************************************)
pushFavorite(user, MovieID) ==
    [user EXCEPT !.FavoriteMovies = push(user.FavoriteMovies, MovieID)]

addFavoriteMovieHandler(token, Username, MovieID) ==
    LET i == findOne(Username)
    IN IF i = 0
       THEN /\ resp' = Response("addFavoriteMovie", token, Identity(token).Username,
                                Username, NoBody, MovieID, 200, "json", <<>>, "",
                                <<"findOneAndUpdate">>)
            /\ UNCHANGED <<users, nextId, imageVars, requests>>
       ELSE /\ Len(users[i].FavoriteMovies) < MaxFavs
            /\ users' = [users EXCEPT ![i] = pushFavorite(users[i], MovieID)]
            /\ resp' = Response("addFavoriteMovie", token, Identity(token).Username,
                                Username, NoBody, MovieID, 200, "json",
                                <<pushFavorite(users[i], MovieID)>>, "",
                                <<"findOneAndUpdate">>)
            /\ UNCHANGED <<nextId, imageVars, requests>>

addFavoriteMovie(token) ==
    IF ~verifyToken(token) THEN Unauthorized("addFavoriteMovie", token)
    ELSE \E Username \in Usernames, MovieID \in MovieIDs :
            addFavoriteMovieHandler(token, Username, MovieID)

(***************************************************************************)
(* DELETE /users/:Username/movies/:MovieID                                 *)
(***************************************************************************)
pullFavorite(user, MovieID) ==
    [user EXCEPT !.FavoriteMovies = pull(user.FavoriteMovies, MovieID)]

deleteFavoriteMovieHandler(token, Username, MovieID) ==
    LET i == findOne(Username)
    IN IF i = 0
       THEN /\ resp' = Response("deleteFavoriteMovie", token, Identity(token).Username,
                                Username, NoBody, MovieID, 200, "json", <<>>, "",
                                <<"findOneAndUpdate">>)
            /\ UNCHANGED <<users, nextId, imageVars, requests>>
       ELSE /\ users' = [users EXCEPT ![i] = pullFavorite(users[i], MovieID)]
            /\ resp' = Response("deleteFavoriteMovie", token, Identity(token).Username,
                                Username, NoBody, MovieID, 200, "json",
                                <<pullFavorite(users[i], MovieID)>>, "",
                                <<"findOneAndUpdate">>)
            /\ UNCHANGED <<nextId, imageVars, requests>>

deleteFavoriteMovie(token) ==
    IF ~verifyToken(token) THEN Unauthorized("deleteFavoriteMovie", token)
    ELSE \E Username \in Usernames, MovieID \in MovieIDs :
            deleteFavoriteMovieHandler(token, Username, MovieID)

(***************************************************************************)
(* DELETE /users/:Username                                                 *)
(***************************************************************************)
deleteUserHandler(token, Username) ==
    LET i == findOne(Username)
    IN IF i = 0
       THEN /\ resp' = Response("deleteUser", token, Identity(token).Username, Username,
                                NoBody, "", 400, "text", <<>>, "was not found",
                                <<"findOneAndDelete">>)
            /\ UNCHANGED <<users, nextId, imageVars, requests>>
       ELSE /\ users' = RemoveAt(users, i)
            /\ resp' = Response("deleteUser", token, Identity(token).Username, Username,
                                NoBody, "", 200, "text", <<>>, "was deleted.",
                                <<"findOneAndDelete">>)
            /\ UNCHANGED <<nextId, imageVars, requests>>

\* deleteUser without passport.authenticate in front of the handler.
deleteUser_NoPassport(token) ==
    \E Username \in Usernames : deleteUserHandler(token, Username)

deleteUser(token) ==
    IF ~verifyToken(token) THEN Unauthorized("deleteUser", token)
    ELSE \E Username \in Usernames : deleteUserHandler(token, Username)

(***************************************************************************)
(* GET /movies, /movies/:Title, /movies/Genre/:genreName,                  *)
(* /movies/director/:directorName.  No route writes the movies collection. *)
(***************************************************************************)
Movies ==
    << [_id |-> "m1", Title |-> "Alien", Genre |-> "Horror", Director |-> "Scott"],
       [_id |-> "m2", Title |-> "Blade Runner", Genre |-> "SciFi", Director |-> "Scott"] >>

MovieFields == {"Title", "Genre", "Director"}

MovieValues == {"Alien", "Scott", "Nobody"}

\* Movies.findOne({field: value}): the first match, or nothing.
findOneMovie(field, value) ==
    LET hits == {i \in 1..Len(Movies) : Movies[i][field] = value}
    IN IF hits = {} THEN <<>>
       ELSE <<Movies[CHOOSE i \in hits : \A j \in hits : i <= j]>>

getMoviesHandler(token) ==
    /\ resp' = Response("getMovies", token, Identity(token).Username, <<>>, NoBody, "",
                        200, "list", Movies, "", <<"find">>)
    /\ UNCHANGED <<users, nextId, imageVars, requests>>

getMovies(token) ==
    IF ~verifyToken(token) THEN Unauthorized("getMovies", token)
    ELSE getMoviesHandler(token)

\* getMovieDetails, getGenreDetails and getDirectorDetails differ in the
\* field they query only.
getMovieByHandler(token, field, value) ==
    /\ resp' = Response("getMovieBy", token, Identity(token).Username, <<>>, NoBody, "",
                        200, "json", findOneMovie(field, value), "", <<"findOne">>)
    /\ UNCHANGED <<users, nextId, imageVars, requests>>

getMovieBy(token) ==
    IF ~verifyToken(token) THEN Unauthorized("getMovieBy", token)
    ELSE \E field \in MovieFields, value \in MovieValues :
            getMovieByHandler(token, field, value)

(***************************************************************************)
(* The bucket BUCKET_NAME.  An object key or a file name is a sequence of  *)
(* lexical pieces: a path segment, the separator "/", a space, "+", or a   *)
(* percent escape.  The bucket is a set of objects with distinct keys.     *)
(***************************************************************************)
InputPrefix == <<"original-images", "/">>

\* An output prefix that is the input prefix.
OutputPrefix_Input == <<"original-images", "/">>

OutputPrefix == <<"resized-images", "/">>

\* startsWith that compares the lengths alone.
startsWith_LengthOnly(s, prefix) == Len(s) >= Len(prefix)

\* String.prototype.startsWith
startsWith(s, prefix) ==
    /\ Len(s) >= Len(prefix)
    /\ SubSeq(s, 1, Len(prefix)) = prefix

Object(Key, Body, ContentType) == [Key |-> Key, Body |-> Body, ContentType |-> ContentType]

\* The objects of bucket b under key: one or none.
objectsAt(b, key) == {o \in b : o.Key = key}

\* A successful PutObject: the object replaces the one under the same key.
put(b, o) == {x \in b : x.Key # o.Key} \cup {o}

\* encodeURIComponent, piece by piece.
encodePiece(c) ==
    CASE c = "/" -> "%2F"
      [] c = " " -> "%20"
      [] c = "+" -> "%2B"
      [] c = "%" -> "%25"
      [] OTHER -> c

encodeURIComponent(s) == [k \in 1..Len(s) |-> encodePiece(s[k])]

\* key.replace(/\+/g, " ")
replacePlus(s) == [k \in 1..Len(s) |-> IF s[k] = "+" THEN " " ELSE s[k]]

\* decodeURIComponent throws URIError on a "%" that starts no escape.
Malformed(s) == \E k \in 1..Len(s) : s[k] = "%"

decodePiece(c) ==
    CASE c = "%2F" -> "/"
      [] c = "%20" -> " "
      [] c = "%2B" -> "+"
      [] c = "%25" -> "%"
      [] c = "%252F" -> "%2F"
      [] c = "%2520" -> "%20"
      [] OTHER -> c

\* decodeURIComponent of a string that is not Malformed.
decodeURIComponent(s) == [k \in 1..Len(s) |-> decodePiece(s[k])]

\* Position of the last "/" of s, 0 when there is none.
lastSlash(s) ==
    IF \E k \in 1..Len(s) : s[k] = "/"
    THEN CHOOSE k \in 1..Len(s) : s[k] = "/" /\ \A j \in (k + 1)..Len(s) : s[j] # "/"
    ELSE 0

\* key.split("/").pop()
baseName(key) == SubSeq(key, lastSlash(key) + 1, Len(key))

(***************************************************************************)
(* Images and sharp.                                                       *)
(***************************************************************************)
\* Side of the bounding box of resize(300, 300, ...).
BoxSize == 300

Photo == Image("jpeg", 600, 400)
Thumb == Image("png", 200, 100)
Tall == Image("gif", 300, 600)
Junk == Image("none", 0, 0)

\* sharp(inputBuffer) reads the buffer as an image.
sharpDecodes(img) == img.format \in {"jpeg", "png", "gif"}

\* n / d rounded to the nearest integer.
Round(n, d) == (2 * n + d) \div (2 * d)

\* resize(300, 300, {fit: "inside", withoutEnlargement: true}): the image
\* keeps its aspect ratio and its format, and is never made larger.
resize(img) ==
    IF img.width <= BoxSize /\ img.height <= BoxSize THEN img
    ELSE IF img.width >= img.height
         THEN Image(img.format, BoxSize, Round(img.height * BoxSize, img.width))
         ELSE Image(img.format, Round(img.width * BoxSize, img.height), BoxSize)

(***************************************************************************)
(* POST /upload, and the other clients of the bucket.                      *)
(***************************************************************************)
\* The type check without effect: every content-type is valid.
validTypes_Any == {"image/jpeg", "image/png", "image/gif", "text/plain"}

validTypes == {"image/jpeg", "image/png", "image/gif"}

\* The image field of the requests.
Files ==
    { NoFile,
      File(<<"cat.jpg">>, "image/jpeg", Photo),
      File(<<"cat.jpg">>, "image/png", Thumb),
      File(<<"a", "/", "cat.jpg">>, "image/gif", Tall),
      File(<<"bad", " ", "pic.jpg">>, "image/jpeg", Junk),
      File(<<"notes.txt">>, "text/plain", Junk) }

postUpload(file) ==
    /\ IF file = NoFile
       THEN /\ upload' = Upload(file, 400, "No file uploaded")
            /\ UNCHANGED bucket
       ELSE IF file.mimetype \notin validTypes
       THEN /\ upload' = Upload(file, 400, "Invalid file type")
            /\ UNCHANGED bucket
       ELSE LET fileName == encodeURIComponent(file.name)
                Key == InputPrefix \o fileName
            IN  \/ /\ bucket' = put(bucket, Object(Key, file.data, file.mimetype))
                   /\ upload' = Upload(file, 200, "File uploaded successfully!")
                \/ /\ upload' = Upload(file, 500, "Error uploading file")
                   /\ UNCHANGED bucket
    /\ UNCHANGED <<users, nextId, resp, invocations, requests>>

\* Objects that other clients of the bucket put into it.
ClientObjects ==
    { Object(InputPrefix \o <<"cat.jpg">>, Photo, "image/jpeg"),
      Object(InputPrefix \o <<"cat.jpg">>, Thumb, "binary/octet-stream"),
      Object(InputPrefix \o <<"a", "/", "cat.jpg">>, Tall, "image/gif"),
      Object(InputPrefix \o <<"bad", " ", "pic.jpg">>, Junk, "image/jpeg") }

clientPut(o) ==
    /\ bucket' = put(bucket, o)
    /\ UNCHANGED <<users, nextId, resp, invocations, upload, requests>>

(***************************************************************************)
(* exports.handler.  An invocation runs from its start to its first await  *)
(* in one step and then from one await to the next; pc names the call it   *)
(* is waiting for.  calls lists the calls to the bucket it has made.       *)
(***************************************************************************)
\* Invocations the model starts.
MaxInvocations == 2

\* An S3 event with the object keys of its records, as they are on the wire.
Event(keys) == [Records |-> keys]

Events ==
    { Event(<<>>),
      Event(<<InputPrefix \o <<"cat.jpg">>>>),
      Event(<<InputPrefix \o <<"a", "/", "cat.jpg">>>>),
      Event(<<InputPrefix \o <<"bad", "+", "pic.jpg">>>>),
      Event(<<InputPrefix \o <<"100", "%", ".jpg">>>>),
      Event(<<<<"other", "/", "x.png">>>>) }

Result(statusCode, body) == [statusCode |-> statusCode, body |-> body]

NoResult == Result(0, "")

Invocation(event, pc, key, Body, ContentType, resized, outputKey, calls, result) ==
    [event |-> event, pc |-> pc, key |-> key, Body |-> Body,
     ContentType |-> ContentType, resized |-> resized, outputKey |-> outputKey,
     calls |-> calls, result |-> result]

NoImage == Image("", 0, 0)

\* An output key that keeps the whole path below the input prefix.
outputKeyOf_KeepPath(key) == OutputPrefix \o SubSeq(key, Len(InputPrefix) + 1, Len(key))

\* `resized-images/${key.split("/").pop()}`
outputKeyOf(key) == OutputPrefix \o baseName(key)

\* The handler from its call to its first await.  Reading the key and
\* decoding it stand outside the try block: an error there rejects the
\* invocation.
handler(event) ==
    /\ Len(invocations) < MaxInvocations
    /\ invocations' = Append(invocations,
          IF event.Records = <<>> \/ Malformed(replacePlus(event.Records[1]))
          THEN Invocation(event, "rejected", <<>>, NoImage, "", NoImage, <<>>, <<>>, NoResult)
          ELSE LET key == decodeURIComponent(replacePlus(event.Records[1]))
               IN  IF ~startsWith(key, InputPrefix)
                   THEN Invocation(event, "returned", key, NoImage, "", NoImage, <<>>, <<>>,
                                   Result(200, "File skipped"))
                   ELSE Invocation(event, "getObject", key, NoImage, "", NoImage, <<>>,
                                   <<"getObject">>, NoResult))
    /\ UNCHANGED <<users, nextId, resp, bucket, upload, requests>>

\* A catch block that calls s3.getObject again instead of returning.
caught_Retry(inv) == [inv EXCEPT !.pc = "getObject", !.calls = Append(@, "getObject")]

\* The object key as the bucket writes it into the event of a notification:
\* URL-encoded, a space as "+", the separator "/" kept.
notificationKey(key) ==
    [k \in 1..Len(key) |->
        CASE key[k] = " " -> "+"
          [] key[k] = "+" -> "%2B"
          [] key[k] = "%" -> "%25"
          [] key[k] = "%2F" -> "%252F"
          [] key[k] = "%20" -> "%2520"
          [] OTHER -> key[k]]

\* The bucket notifies the creation of object o: the handler is called with
\* the event of that object.  A notification may be delivered again.
objectCreated(o) ==
    /\ o \in bucket
    /\ handler(Event(<<notificationKey(o.Key)>>))

\* The catch block.
caught(inv) == [inv EXCEPT !.pc = "returned", !.result = Result(500, "Error resizing image")]

\* await s3.getObject settles: with the object under the key, or with an
\* error (NoSuchKey when there is none).
getObject(i) ==
    /\ i \in 1..Len(invocations)
    /\ invocations[i].pc = "getObject"
    /\ \/ \E o \in objectsAt(bucket, invocations[i].key) :
             invocations' = [invocations EXCEPT ![i].pc = "sharp",
                                                ![i].Body = o.Body,
                                                ![i].ContentType = o.ContentType]
       \/ invocations' = [invocations EXCEPT ![i] = caught(@)]
    /\ UNCHANGED <<users, nextId, resp, bucket, upload, requests>>

\* sharp with an output key that carries the number of the invocation.
sharp_KeyPerInvocation(i) ==
    /\ i \in 1..Len(invocations)
    /\ invocations[i].pc = "sharp"
    /\ invocations' =
          IF sharpDecodes(invocations[i].Body)
          THEN [invocations EXCEPT ![i].pc = "putObject",
                                   ![i].resized = resize(invocations[i].Body),
                                   ![i].outputKey = outputKeyOf(invocations[i].key)
                                                       \o <<ToString(i)>>,
                                   ![i].calls = Append(@, "putObject")]
          ELSE [invocations EXCEPT ![i] = caught(@)]
    /\ UNCHANGED <<users, nextId, resp, bucket, upload, requests>>

\* await streamToBuffer and await sharp(...).toBuffer() settle; on success
\* the handler builds outputKey and calls s3.putObject.
sharp(i) ==
    /\ i \in 1..Len(invocations)
    /\ invocations[i].pc = "sharp"
    /\ invocations' =
          IF sharpDecodes(invocations[i].Body)
          THEN [invocations EXCEPT ![i].pc = "putObject",
                                   ![i].resized = resize(invocations[i].Body),
                                   ![i].outputKey = outputKeyOf(invocations[i].key),
                                   ![i].calls = Append(@, "putObject")]
          ELSE [invocations EXCEPT ![i] = caught(@)]
    /\ UNCHANGED <<users, nextId, resp, bucket, upload, requests>>

\* await s3.putObject settles: the object is written and the handler
\* returns, or the call fails and nothing is written.
putObject(i) ==
    /\ i \in 1..Len(invocations)
    /\ invocations[i].pc = "putObject"
    /\ \/ /\ bucket' = put(bucket, Object(invocations[i].outputKey,
                                          invocations[i].resized,
                                          invocations[i].ContentType))
          /\ invocations' = [invocations EXCEPT
                ![i].pc = "returned",
                ![i].result = Result(200, "Successfully resized and uploaded")]
       \/ /\ invocations' = [invocations EXCEPT ![i] = caught(@)]
          /\ UNCHANGED bucket
    /\ UNCHANGED <<users, nextId, resp, upload, requests>>

(***************************************************************************)
(* Requests in flight.  Node runs a handler from one await to the next     *)
(* without interruption, and the store executes each query at once, when   *)
(* the awaited promise settles; between two such steps of one request the  *)
(* steps of other requests may run.  pc names the query a request is       *)
(* waiting for.                                                            *)
(***************************************************************************)
\* Requests the model starts.
MaxRequests == 2

Request(op, token, Username, body, MovieID, pc, status, docs) ==
    [op |-> op, token |-> token, Username |-> Username, body |-> body,
     MovieID |-> MovieID, pc |-> pc, status |-> status, docs |-> docs]

\* POST /users from its call to await Users.findOne.
registerUserBegins(body) ==
    /\ Len(requests) < MaxRequests
    /\ requests' = Append(requests,
          IF BodyErrors(body) # {}
          THEN Request("registerUser", NoToken, <<>>, body, "", "done", 422, <<>>)
          ELSE Request("registerUser", NoToken, <<>>, body, "", "findOne", 0, <<>>))
    /\ UNCHANGED <<users, nextId, resp, imageVars>>

\* Users.findOne settles: 400 when a record has the name, Users.create
\* otherwise.
registerUserFindOne(r) ==
    /\ r \in 1..Len(requests)
    /\ requests[r].op = "registerUser"
    /\ requests[r].pc = "findOne"
    /\ requests' = IF findOne(requests[r].body.Username) # 0
                   THEN [requests EXCEPT ![r].pc = "done", ![r].status = 400]
                   ELSE [requests EXCEPT ![r].pc = "create"]
    /\ UNCHANGED <<users, nextId, resp, imageVars>>

\* Users.create over a collection with a unique index on Username.
registerUserCreate_UniqueIndex(r) ==
    /\ r \in 1..Len(requests)
    /\ requests[r].op = "registerUser"
    /\ requests[r].pc = "create"
    /\ nextId <= MaxId
    /\ IF findOne(requests[r].body.Username) # 0
       THEN /\ requests' = [requests EXCEPT ![r].pc = "done", ![r].status = 500]
            /\ UNCHANGED <<users, nextId>>
       ELSE LET body == requests[r].body
                user == User(nextId, body.Username, hashPassword(body.Password),
                             body.Email, body.Birthday, <<>>)
            IN  /\ users' = Append(users, user)
                /\ nextId' = nextId + 1
                /\ requests' = [requests EXCEPT ![r].pc = "done", ![r].status = 201,
                                                ![r].docs = <<user>>]
    /\ UNCHANGED <<resp, imageVars>>

\* Users.create settles: the record is stored and answered with 201.
registerUserCreate(r) ==
    /\ r \in 1..Len(requests)
    /\ requests[r].op = "registerUser"
    /\ requests[r].pc = "create"
    /\ nextId <= MaxId
    /\ LET body == requests[r].body
           user == User(nextId, body.Username, hashPassword(body.Password),
                        body.Email, body.Birthday, <<>>)
       IN  /\ users' = Append(users, user)
           /\ nextId' = nextId + 1
           /\ requests' = [requests EXCEPT ![r].pc = "done", ![r].status = 201,
                                           ![r].docs = <<user>>]
    /\ UNCHANGED <<resp, imageVars>>

\* POST /users/:Username/movies/:MovieID from its call to await
\* Users.findOneAndUpdate: passport first, then the handler.
addFavoriteMovieBegins(token) ==
    /\ Len(requests) < MaxRequests
    /\ IF ~verifyToken(token)
       THEN requests' = Append(requests,
               Request("addFavoriteMovie", token, <<>>, NoBody, "", "done", 401, <<>>))
       ELSE \E Username \in Usernames, MovieID \in MovieIDs :
               requests' = Append(requests,
                  Request("addFavoriteMovie", token, Username, NoBody, MovieID,
                          "findOneAndUpdate", 0, <<>>))
    /\ UNCHANGED <<users, nextId, resp, imageVars>>

\* An update in two queries: the document is read, and the document read,
\* with the movie pushed, is saved over the stored one.
addFavoriteMovieUpdate_ReadThenSave(r) ==
    /\ r \in 1..Len(requests)
    /\ requests[r].op = "addFavoriteMovie"
    /\ LET i == findOne(requests[r].Username)
       IN  \/ /\ requests[r].pc = "findOneAndUpdate"
              /\ requests' = IF i = 0
                             THEN [requests EXCEPT ![r].pc = "done", ![r].status = 200]
                             ELSE [requests EXCEPT ![r].pc = "save", ![r].docs = <<users[i]>>]
              /\ UNCHANGED users
           \/ /\ requests[r].pc = "save"
              /\ i # 0
              /\ users' = [users EXCEPT
                    ![i] = pushFavorite(requests[r].docs[1], requests[r].MovieID)]
              /\ requests' = [requests EXCEPT ![r].pc = "done", ![r].status = 200,
                                              ![r].docs = <<users'[i]>>]
    /\ UNCHANGED <<nextId, resp, imageVars>>

\* Users.findOneAndUpdate with $push settles: the store finds the record
\* and appends to its list in one operation; the handler answers with the
\* updated record, or with null when there is none.
addFavoriteMovieUpdate(r) ==
    /\ r \in 1..Len(requests)
    /\ requests[r].op = "addFavoriteMovie"
    /\ requests[r].pc = "findOneAndUpdate"
    /\ LET i == findOne(requests[r].Username)
       IN  IF i = 0
           THEN /\ requests' = [requests EXCEPT ![r].pc = "done", ![r].status = 200]
                /\ UNCHANGED users
           ELSE /\ users' = [users EXCEPT ![i] = pushFavorite(users[i], requests[r].MovieID)]
                /\ requests' = [requests EXCEPT ![r].pc = "done", ![r].status = 200,
                                                ![r].docs = <<users'[i]>>]
    /\ UNCHANGED <<nextId, resp, imageVars>>

\* DELETE /users/:Username/movies/:MovieID from its call to await
\* Users.findOneAndUpdate.
deleteFavoriteMovieBegins(token) ==
    /\ Len(requests) < MaxRequests
    /\ IF ~verifyToken(token)
       THEN requests' = Append(requests,
               Request("deleteFavoriteMovie", token, <<>>, NoBody, "", "done", 401, <<>>))
       ELSE \E Username \in Usernames, MovieID \in MovieIDs :
               requests' = Append(requests,
                  Request("deleteFavoriteMovie", token, Username, NoBody, MovieID,
                          "findOneAndUpdate", 0, <<>>))
    /\ UNCHANGED <<users, nextId, resp, imageVars>>

\* Users.findOneAndUpdate with $pull settles.
deleteFavoriteMovieUpdate(r) ==
    /\ r \in 1..Len(requests)
    /\ requests[r].op = "deleteFavoriteMovie"
    /\ requests[r].pc = "findOneAndUpdate"
    /\ LET i == findOne(requests[r].Username)
       IN  IF i = 0
           THEN /\ requests' = [requests EXCEPT ![r].pc = "done", ![r].status = 200]
                /\ UNCHANGED users
           ELSE /\ users' = [users EXCEPT ![i] = pullFavorite(users[i], requests[r].MovieID)]
                /\ requests' = [requests EXCEPT ![r].pc = "done", ![r].status = 200,
                                                ![r].docs = <<users'[i]>>]
    /\ UNCHANGED <<nextId, resp, imageVars>>

(***************************************************************************)
(* Specifications.                                                         *)
(***************************************************************************)
Next ==
    \/ \E body \in Bodies : registerUser(body)
    \/ \E token \in Tokens : getUsers(token)
    \/ \E token \in Tokens : getSingleUser(token)
    \/ \E token \in Tokens : UpdateUser(token)
    \/ \E token \in Tokens : addFavoriteMovie(token)
    \/ \E token \in Tokens : deleteFavoriteMovie(token)
    \/ \E token \in Tokens : deleteUser(token)
    \/ \E token \in Tokens : getMovies(token)
    \/ \E token \in Tokens : getMovieBy(token)

\* Every route over the users and the movies collections.
Spec == Init /\ [][Next]_vars

\* The account routes alone: no request touches a favorites list.
NextUsers ==
    \/ \E body \in Bodies : registerUser(body)
    \/ \E token \in Tokens : getUsers(token)
    \/ \E token \in Tokens : getSingleUser(token)
    \/ \E token \in Tokens : UpdateUser(token)
    \/ \E token \in Tokens : deleteUser(token)

SpecUsers == Init /\ [][NextUsers]_vars

\* Registration, deletion and the favorites routes: no record is updated.
NextFavorites ==
    \/ \E body \in Bodies : registerUser(body)
    \/ \E token \in Tokens : addFavoriteMovie(token)
    \/ \E token \in Tokens : deleteFavoriteMovie(token)
    \/ \E token \in Tokens : deleteUser(token)

SpecFavorites == Init /\ [][NextFavorites]_vars

\* POST /upload next to the other clients of the bucket.
NextUpload ==
    \/ \E file \in Files : postUpload(file)
    \/ \E o \in ClientObjects : clientPut(o)

SpecUpload == Init /\ [][NextUpload]_vars

\* The invocations of exports.handler over a bucket that its clients fill.
NextPipeline ==
    \/ \E o \in ClientObjects : clientPut(o)
    \/ \E event \in Events : handler(event)
    \/ \E i \in 1..MaxInvocations : getObject(i)
    \/ \E i \in 1..MaxInvocations : sharp(i)
    \/ \E i \in 1..MaxInvocations : putObject(i)

SpecPipeline == Init /\ [][NextPipeline]_vars

\* Uploads, and the invocations that the creation of an object in the
\* bucket triggers, the objects the handler itself writes included.
NextNotified ==
    \/ \E file \in Files : postUpload(file)
    \/ \E o \in bucket : objectCreated(o)
    \/ \E i \in 1..MaxInvocations : getObject(i)
    \/ \E i \in 1..MaxInvocations : sharp(i)
    \/ \E i \in 1..MaxInvocations : putObject(i)

SpecNotified == Init /\ [][NextNotified]_vars

\* Registrations in flight at the same time.
NextRegistrations ==
    \/ \E body \in Bodies : registerUserBegins(body)
    \/ \E r \in 1..MaxRequests : registerUserFindOne(r)
    \/ \E r \in 1..MaxRequests : registerUserCreate(r)

SpecRegistrations == Init /\ [][NextRegistrations]_vars

\* The bodies that pass the validation of POST /users.
ValidBodies == {body \in Bodies : BodyErrors(body) = {}}

\* Favorites requests in flight at the same time, over users registered
\* with valid bodies.
NextFavoritesInFlight ==
    \/ \E body \in ValidBodies : registerUser(body)
    \/ \E token \in Tokens : addFavoriteMovieBegins(token)
    \/ \E token \in Tokens : deleteFavoriteMovieBegins(token)
    \/ \E r \in 1..MaxRequests : addFavoriteMovieUpdate(r)
    \/ \E r \in 1..MaxRequests : deleteFavoriteMovieUpdate(r)

SpecFavoritesInFlight == Init /\ [][NextFavoritesInFlight]_vars

(***************************************************************************)
(* Properties.  resp' is the request a step has just answered; users is    *)
(* the store that request found and users' the store it left.              *)
(***************************************************************************)
\* The request in resp carried a token that verified.
Authenticated(r) == verifyToken(r.token)

\* Some stored document has this Username.
Stored(Username) == \E i \in 1..Len(users) : users[i].Username = Username

\* Shorter than 5 characters, or with a character that is not alphanumeric.
BadUsername(s) ==
    \/ Len(s) < 5
    \/ \E k \in 1..Len(s) : s[k] \notin AlphanumericChars

Occurrences(list, v) == Cardinality({k \in 1..Len(list) : list[k] = v})

Without(list, v) == SelectSeq(list, LAMBDA x : x # v)

\* C1: after any sequence of register and update requests, the Password of
\* every stored user is the hash of a submitted password and never a
\* submitted plaintext.
C1_PasswordsHashed ==
    \A i \in 1..Len(users) :
        /\ users[i].Password \notin Passwords
        /\ \E p \in Passwords : users[i].Password = hashPassword(p)

\* C2 (as claimed): an update of A by an authenticated B # A is answered
\* Forbidden ('Permission denied') whatever the body holds, and changes no
\* record.
C2_ForbiddenWhateverBody ==
    [][(/\ resp'.op = "UpdateUser"
        /\ Authenticated(resp')
        /\ resp'.user # resp'.Username)
       => (/\ resp'.status = 400
           /\ resp'.msg = "Permission denied"
           /\ users' = users)]_vars

\* C2 (amended): an update of A by an authenticated B # A changes no record;
\* it is answered Forbidden ('Permission denied') when the Username
\* parameter and the body pass the route's validation, and ValidationError
\* (422) when they do not.
C2_ForbiddenAfterValidation ==
    [][(/\ resp'.op = "UpdateUser"
        /\ Authenticated(resp')
        /\ resp'.user # resp'.Username)
       => (/\ users' = users
           /\ resp'.docs = <<>>
           /\ IF \/ BadUsername(resp'.Username)
                 \/ BadUsername(resp'.body.Username)
                 \/ resp'.body.Password = <<>>
                 \/ ~isEmail(resp'.body.Email)
              THEN resp'.status = 422
              ELSE resp'.status = 400 /\ resp'.msg = "Permission denied")]_vars

\* An update of a stored user by somebody else was refused.
C2_Witness ==
    /\ resp.op = "UpdateUser"
    /\ resp.user # resp.Username
    /\ Stored(resp.Username)
    /\ resp.status = 400
    /\ resp.msg = "Permission denied"

\* C3 (as claimed): a register request whose Username is stored already is
\* answered Conflict (400) whether or not its Password and Email are valid,
\* and creates no record.
C3_ConflictWhateverFields ==
    [][(resp'.op = "registerUser" /\ Stored(resp'.body.Username))
       => (resp'.status = 400 /\ users' = users)]_vars

\* C3 (amended): a register request whose Username is stored already creates
\* no record; it is answered Conflict (400) when its Password and Email pass
\* validation, and ValidationError (422) when they do not.
C3_ConflictAfterValidation ==
    [][(resp'.op = "registerUser" /\ Stored(resp'.body.Username))
       => (/\ users' = users
           /\ IF resp'.body.Password = <<>> \/ ~isEmail(resp'.body.Email)
              THEN resp'.status = 422
              ELSE resp'.status = 400 /\ resp'.msg = "already exists")]_vars

\* A registration of a stored username was answered Conflict.
C3_Witness ==
    /\ resp.op = "registerUser"
    /\ Stored(resp.body.Username)
    /\ resp.status = 400

\* C4: a register request, or an update request that reached its handler,
\* whose body Username is shorter than 5 characters or not alphanumeric is
\* answered ValidationError (422); the store is not queried and the user
\* records are unchanged.
C4_BadUsernameRejected ==
    [][(/\ resp'.op \in {"registerUser", "UpdateUser"}
        /\ resp'.op = "UpdateUser" => Authenticated(resp')
        /\ BadUsername(resp'.body.Username))
       => (/\ resp'.status = 422
           /\ resp'.storeOps = <<>>
           /\ users' = users)]_vars

\* An update of a stored user with a bad new Username was rejected.
C4_Witness ==
    /\ resp.op = "UpdateUser"
    /\ Authenticated(resp)
    /\ Stored(resp.Username)
    /\ BadUsername(resp.body.Username)
    /\ resp.status = 422

\* C5: with requests handled one at a time, no two stored user records have
\* the same Username.
C5_UniqueUsernames ==
    \A i, j \in 1..Len(users) : users[i].Username = users[j].Username => i = j

ProtectedOps ==
    {"getUsers", "getSingleUser", "UpdateUser", "addFavoriteMovie",
     "deleteFavoriteMovie", "deleteUser", "getMovies", "getMovieBy"}

\* C6: on every protected route a request whose token is missing or does not
\* verify is answered Unauthorized (401) without the handler running: no
\* store call, no document in the response, no record created, changed or
\* deleted.  A request that is answered otherwise carried a verified token
\* and ran with that token's identity as req.user.
C6_ProtectedRoutes ==
    [][resp'.op \in ProtectedOps
       => IF ~verifyToken(resp'.token)
          THEN /\ resp'.status = 401
               /\ resp'.docs = <<>>
               /\ resp'.storeOps = <<>>
               /\ users' = users
               /\ nextId' = nextId
          ELSE /\ resp'.status # 401
               /\ resp'.user = resp'.token.Username]_vars

\* A request without a verified token was refused while users were stored.
C6_Witness ==
    /\ resp.op = "deleteUser"
    /\ ~verifyToken(resp.token)
    /\ resp.status = 401
    /\ Len(users) > 0

\* C7: a successful addFavorite(u, m) on a stored user u puts m at the end of
\* u's list without deduplication: m occurs once more than before and the
\* earlier entries keep their places.
C7_AddAppends ==
    [][(/\ resp'.op = "addFavoriteMovie"
        /\ Authenticated(resp')
        /\ Stored(resp'.Username))
       => LET i == findOne(resp'.Username)
              old == users[i].FavoriteMovies
              new == users'[i].FavoriteMovies
          IN /\ resp'.status = 200
             /\ Len(users') = Len(users)
             /\ resp'.docs = <<users'[i]>>
             /\ Len(new) = Len(old) + 1
             /\ new[Len(new)] = resp'.MovieID
             /\ SubSeq(new, 1, Len(old)) = old
             /\ Occurrences(new, resp'.MovieID) = Occurrences(old, resp'.MovieID) + 1]_vars

\* The same movie was added twice in a row: the list holds it twice.
C7_Witness ==
    /\ resp.op = "addFavoriteMovie"
    /\ resp.status = 200
    /\ resp.docs # <<>>
    /\ resp.docs[1].FavoriteMovies = <<resp.MovieID, resp.MovieID>>
    /\ \E i \in 1..Len(users) : users[i] = resp.docs[1]

\* C8: removeFavorite(u, m) on a stored user u succeeds and leaves u's list
\* as it was with every occurrence of m taken out and the other entries in
\* their order; a list without m is left as it was.
C8_RemoveAll ==
    [][(/\ resp'.op = "deleteFavoriteMovie"
        /\ Authenticated(resp')
        /\ Stored(resp'.Username))
       => LET i == findOne(resp'.Username)
              old == users[i].FavoriteMovies
              new == users'[i].FavoriteMovies
          IN /\ resp'.status = 200
             /\ Len(users') = Len(users)
             /\ resp'.docs = <<users'[i]>>
             /\ new = Without(old, resp'.MovieID)
             /\ Occurrences(new, resp'.MovieID) = 0
             /\ Occurrences(old, resp'.MovieID) = 0 => new = old]_vars

\* A movie was removed from a list that keeps another one.
C8_Witness ==
    /\ resp.op = "deleteFavoriteMovie"
    /\ resp.status = 200
    /\ resp.docs # <<>>
    /\ resp.docs[1].FavoriteMovies # <<>>
    /\ Occurrences(resp.docs[1].FavoriteMovies, resp.MovieID) = 0
    /\ \E i \in 1..Len(users) : users[i] = resp.docs[1]

\* C9: getByUsername(u) with a valid token returns u's record when a user
\* named u is stored and fails with NotFound (404) when none is.
C9_GetOrNotFound ==
    (resp.op = "getSingleUser" /\ Authenticated(resp))
    => IF Stored(resp.Username)
       THEN resp.status = 200 /\ resp.docs = <<users[findOne(resp.Username)]>>
       ELSE resp.status = 404

\* C10: addFavorite and removeFavorite on a username without a stored record
\* fail with NotFound (404) and leave the store unchanged.
C10_NotFoundNoChange ==
    [][(/\ resp'.op \in {"addFavoriteMovie", "deleteFavoriteMovie"}
        /\ Authenticated(resp')
        /\ ~Stored(resp'.Username))
       => (resp'.status = 404 /\ users' = users)]_vars

\* C11: delete(u) with a valid token removes one record named u when there
\* is one, answers with the confirmation and leaves every other record as it
\* was; when there is none it answers with the error 'was not found' and
\* leaves the store unchanged.
C11_DeleteOrNotFound ==
    [][(resp'.op = "deleteUser" /\ Authenticated(resp'))
       => IF Stored(resp'.Username)
          THEN /\ resp'.status = 200
               /\ resp'.msg = "was deleted."
               /\ \E i \in 1..Len(users) :
                     /\ users[i].Username = resp'.Username
                     /\ Len(users') = Len(users) - 1
                     /\ \A k \in 1..Len(users') :
                           users'[k] = IF k < i THEN users[k] ELSE users[k + 1]
          ELSE /\ resp'.status \in 400..499
               /\ resp'.msg = "was not found"
               /\ users' = users]_vars

\* A user was deleted and another one is still stored.
C11_Witness ==
    /\ resp.op = "deleteUser"
    /\ resp.status = 200
    /\ Len(users) > 0
    /\ ~Stored(resp.Username)

InInputNamespace(key) == Len(key) >= 2 /\ key[1] = "original-images" /\ key[2] = "/"

\* The key names an object of the output namespace 'resized-images/'.
InOutputNamespace(key) == Len(key) >= 2 /\ key[1] = "resized-images" /\ key[2] = "/"

\* The step starts invocation i.
Starts(i) == i = Len(invocations) + 1 /\ Len(invocations') = i

\* C13: an invocation whose object key does not start with 'original-images/'
\* returns status 200 'File skipped' from its first step, which leaves the
\* bucket as it was; it calls the bucket neither to fetch nor to write, and
\* no later step belongs to it.
C13_SkipFilter ==
    [][\A i \in 1..Len(invocations') :
          LET inv == invocations'[i] IN
          (inv.pc # "rejected" /\ ~InInputNamespace(inv.key))
             => /\ inv.pc = "returned"
                /\ inv.result = Result(200, "File skipped")
                /\ inv.calls = <<>>
                /\ Starts(i) => bucket' = bucket
                /\ ~Starts(i) => invocations[i] = inv]_vars

\* A skipped invocation stands next to one that has written its output.
C13_Witness ==
    \E i, j \in 1..Len(invocations) :
       /\ invocations[i].key = <<"other", "/", "x.png">>
       /\ invocations[i].result = Result(200, "File skipped")
       /\ invocations[j].result.statusCode = 200
       /\ invocations[j].calls = <<"getObject", "putObject">>

\* base is the base filename of key: what follows its last "/".
IsBaseNameOf(base, key) ==
    /\ Len(base) < Len(key)
    /\ SubSeq(key, Len(key) - Len(base) + 1, Len(key)) = base
    /\ key[Len(key) - Len(base)] = "/"
    /\ \A k \in 1..Len(base) : base[k] # "/"

\* Invocation i takes the step from waiting for call to the next point.
Settles(i, call) ==
    /\ i \in 1..Len(invocations)
    /\ invocations[i].pc = call
    /\ invocations'[i] # invocations[i]

\* The step ends invocation i in the catch block.
Fails(i) ==
    /\ invocations'[i].pc = "returned"
    /\ invocations'[i].result.statusCode = 500

\* C14: an invocation for a key 'original-images/<path>' takes the content
\* and the content-type of the object under that key, and when fetch and
\* transform have succeeded its write, unless the write itself fails, puts
\* one object under 'resized-images/<base filename of the key>' with the
\* resized content and the content-type of the fetched object, changes no
\* other object, the input object included, and returns status 200 after
\* exactly one write.
C14_StoreStep ==
    [][\A i \in 1..MaxInvocations :
          /\ (Settles(i, "getObject") /\ ~Fails(i))
                => /\ InInputNamespace(invocations[i].key)
                   /\ \E o \in bucket :
                         /\ o.Key = invocations[i].key
                         /\ invocations'[i].Body = o.Body
                         /\ invocations'[i].ContentType = o.ContentType
                   /\ bucket' = bucket
          /\ (Settles(i, "sharp") /\ ~Fails(i))
                => /\ invocations'[i].ContentType = invocations[i].ContentType
                   /\ invocations'[i].key = invocations[i].key
                   /\ bucket' = bucket
          /\ (Settles(i, "putObject") /\ ~Fails(i))
                => LET inv == invocations[i] IN
                   /\ \E n \in 1..Len(inv.key) :
                         LET base == SubSeq(inv.key, Len(inv.key) - n + 1, Len(inv.key))
                             out == <<"resized-images", "/">> \o base
                         IN  /\ IsBaseNameOf(base, inv.key)
                             /\ bucket' = {o \in bucket : o.Key # out}
                                             \cup {[Key |-> out, Body |-> inv.resized,
                                                    ContentType |-> inv.ContentType]}
                   /\ {o \in bucket' : o.Key = inv.key} = {o \in bucket : o.Key = inv.key}
                   /\ invocations'[i].pc = "returned"
                   /\ invocations'[i].result.statusCode = 200
                   /\ invocations'[i].calls = <<"getObject", "putObject">>]_vars

\* The event for 'original-images/a/cat.jpg' has put the resized image under
\* 'resized-images/cat.jpg', with the content-type of its source, next to it.
C14_Witness ==
    /\ \E i \in 1..Len(invocations) :
          /\ invocations[i].key = <<"original-images", "/", "a", "/", "cat.jpg">>
          /\ invocations[i].result.statusCode = 200
    /\ [Key |-> <<"resized-images", "/", "cat.jpg">>,
        Body |-> [format |-> "gif", width |-> 150, height |-> 300],
        ContentType |-> "image/gif"] \in bucket
    /\ [Key |-> <<"original-images", "/", "a", "/", "cat.jpg">>,
        Body |-> [format |-> "gif", width |-> 300, height |-> 600],
        ContentType |-> "image/gif"] \in bucket

\* C15: a fetch that finds no object and a transform of a buffer that is no
\* image fail; an invocation whose fetch, transform or store fails returns
\* status 500 with the error message in that same step, calls the bucket no
\* further, and after a failed fetch or transform has written nothing; an
\* invocation that has returned takes no further step, so nothing is retried.
C15_FailureStops ==
    [][\A i \in 1..MaxInvocations :
          /\ (Settles(i, "getObject") /\ \A o \in bucket : o.Key # invocations[i].key)
                => Fails(i)
          /\ (Settles(i, "sharp") /\ invocations[i].Body.format \notin {"jpeg", "png", "gif"})
                => Fails(i)
          /\ \A call \in {"getObject", "sharp", "putObject"} :
                (Settles(i, call) /\ Fails(i))
                   => /\ invocations'[i].result =
                            [statusCode |-> 500, body |-> "Error resizing image"]
                      /\ invocations'[i].calls = invocations[i].calls
                      /\ invocations[i].calls =
                            IF call = "putObject" THEN <<"getObject", "putObject">>
                                                  ELSE <<"getObject">>
                      /\ call # "putObject" => bucket' = bucket
          /\ (i \in 1..Len(invocations) /\ invocations[i].pc = "returned")
                => invocations'[i] = invocations[i]]_vars

\* One invocation has failed in the transform and one in the store, and the
\* output namespace is empty.
C15_Witness ==
    /\ \E i, j \in 1..Len(invocations) :
          /\ invocations[i].result.statusCode = 500
          /\ invocations[i].Body.format = "none"
          /\ invocations[i].calls = <<"getObject">>
          /\ invocations[j].result.statusCode = 500
          /\ invocations[j].calls = <<"getObject", "putObject">>
    /\ \A o \in bucket : ~InOutputNamespace(o.Key)
    /\ bucket # {}

\* Invocation i has written its output and returned.
Wrote(i) ==
    /\ invocations[i].pc = "returned"
    /\ invocations[i].result.statusCode = 200
    /\ invocations[i].calls = <<"getObject", "putObject">>

\* Invocations i and k are for the same key and fetched the same object.
SameInput(i, k) ==
    /\ invocations[i].key = invocations[k].key
    /\ invocations[i].Body = invocations[k].Body
    /\ invocations[i].ContentType = invocations[k].ContentType

\* What invocation i writes.
Output(i) ==
    [Key |-> invocations[i].outputKey, Body |-> invocations[i].resized,
     ContentType |-> invocations[i].ContentType]

\* C16: two invocations for the same key that fetched the same object write
\* the same output key with the same content and content-type; the write of
\* the second, made while the output of the first is in the bucket, leaves
\* the bucket as it was.
C16_Idempotent ==
    [][\A i, k \in 1..Len(invocations) :
          (i # k /\ Wrote(k) /\ SameInput(i, k) /\ Settles(i, "putObject") /\ ~Fails(i))
             => /\ Output(i) = Output(k)
                /\ Output(k) \in bucket => bucket' = bucket
                /\ Output(k) \in bucket']_vars

\* The event for 'original-images/cat.jpg' was processed twice over the same
\* object, and its output is in the bucket.
C16_Witness ==
    \E i, k \in 1..Len(invocations) :
       /\ i # k
       /\ Wrote(i) /\ Wrote(k) /\ SameInput(i, k)
       /\ invocations[i].key = <<"original-images", "/", "cat.jpg">>
       /\ invocations[i].Body = [format |-> "jpeg", width |-> 600, height |-> 400]
       /\ Output(i) \in bucket
       /\ Output(i).Body = [format |-> "jpeg", width |-> 300, height |-> 200]

(***************************************************************************)
(* Properties of POST /upload.                                             *)
(***************************************************************************)
\* The step answers a POST /upload request.
AnswersUpload == \E file \in Files : postUpload(file)

\* C17: POST /upload without an image file, or with one whose content-type
\* is none of image/jpeg, image/png and image/gif, answers 400 and leaves
\* the bucket as it was; an upload answered with success has written one
\* object, under 'original-images/' and not under 'resized-images/', with
\* the content and the content-type of the file, and changed no other
\* object.
C17_UploadValidated ==
    [][AnswersUpload
         => LET file == upload'.file IN
            /\ (file.name = <<>> \/ file.mimetype \notin {"image/jpeg", "image/png", "image/gif"})
                  => /\ upload'.status = 400
                     /\ bucket' = bucket
            /\ upload'.status \in 200..299
                  => \E o \in bucket' :
                        /\ InInputNamespace(o.Key)
                        /\ ~InOutputNamespace(o.Key)
                        /\ o.Body = file.data
                        /\ o.ContentType = file.mimetype
                        /\ bucket' = {x \in bucket : x.Key # o.Key} \cup {o}
            /\ upload'.status \notin 200..299 => bucket' = bucket]_vars

\* An accepted upload of a file named 'a/cat.jpg': its object is in the
\* bucket next to another, and nothing is under 'resized-images/'.
C17_Witness ==
    /\ upload.status = 200
    /\ upload.file.name = <<"a", "/", "cat.jpg">>
    /\ \E o \in bucket :
          /\ o.Key = <<"original-images", "/", "a", "%2F", "cat.jpg">>
          /\ o.ContentType = upload.file.mimetype
    /\ Cardinality(bucket) > 1
    /\ \A o \in bucket : ~InOutputNamespace(o.Key)

\* C20: two invocations for two different keys under 'original-images/'
\* that have both written their output wrote it under different keys.
C20_DistinctOutputs ==
    \A i, k \in 1..Len(invocations) :
       (/\ Wrote(i) /\ Wrote(k)
        /\ InInputNamespace(invocations[i].key)
        /\ InInputNamespace(invocations[k].key)
        /\ invocations[i].key # invocations[k].key)
          => invocations[i].outputKey # invocations[k].outputKey

(***************************************************************************)
(* Properties of requests in flight.                                       *)
(***************************************************************************)
\* Number of records named Username.
Records(Username) == Cardinality({i \in 1..Len(users) : users[i].Username = Username})

\* C18: a registration whose existence check found no record of its
\* username creates its record and answers 201 whatever was stored in the
\* meantime, a record of the same username included; every registration
\* answered 201 has its own record in the store, so no create is lost.
C18_RegisterRace ==
    /\ [][\A r \in 1..Len(requests) :
            (requests[r].pc = "create" /\ requests'[r] # requests[r])
               => /\ requests'[r].pc = "done"
                  /\ requests'[r].status = 201
                  /\ Len(users') = Len(users) + 1
                  /\ SubSeq(users', 1, Len(users)) = users
                  /\ users'[Len(users')].Username = requests[r].body.Username]_vars
    /\ [](\A name \in Usernames :
            Records(name) = Cardinality({r \in 1..Len(requests) :
                                           /\ requests[r].status = 201
                                           /\ requests[r].body.Username = name}))

\* Two registrations of 'alice' were both answered 201 and the store holds
\* two records named 'alice'.
C18_Witness ==
    /\ Len(requests) = 2
    /\ \A r \in 1..2 : requests[r].status = 201 /\ requests[r].body.Username = alice
    /\ Len(users) = 2
    /\ users[1].Username = alice /\ users[2].Username = alice
    /\ users[1]._id # users[2]._id

\* The favorites requests on the user named name that have been answered
\* with an updated record.
Applied(name) ==
    {r \in 1..Len(requests) :
        /\ requests[r].op \in {"addFavoriteMovie", "deleteFavoriteMovie"}
        /\ requests[r].pc = "done"
        /\ requests[r].Username = name
        /\ requests[r].docs # <<>>}

\* The ways of putting the requests of S one after the other.
Orders(S) ==
    {f \in [1..Cardinality(S) -> S] : \A a, b \in 1..Cardinality(S) : a # b => f[a] # f[b]}

\* The list after one request alone.
OneAtATime(request, list) ==
    IF request.op = "addFavoriteMovie"
    THEN list \o <<request.MovieID>>
    ELSE Without(list, request.MovieID)

RECURSIVE InOrder(_, _, _)
\* The list after the first n requests of order f, one at a time.
InOrder(f, n, list) ==
    IF n = 0 THEN list ELSE OneAtATime(requests[f[n]], InOrder(f, n - 1, list))

\* C19: the favorites list of every user is the list that the add and
\* remove requests answered so far on that user produce from the empty list
\* when applied one at a time in some order: no update is lost, whatever
\* the overlap of the requests.
C19_NoLostUpdate ==
    \A i \in 1..Len(users) :
       \E f \in Orders(Applied(users[i].Username)) :
          users[i].FavoriteMovies = InOrder(f, Cardinality(Applied(users[i].Username)), <<>>)

\* The request that began second was applied first, and both movies are in
\* the list.
C19_Witness ==
    /\ Len(requests) = 2
    /\ requests[1].op = "addFavoriteMovie" /\ requests[1].MovieID = "m1"
    /\ requests[2].op = "addFavoriteMovie" /\ requests[2].MovieID = "m2"
    /\ requests[1].pc = "done" /\ requests[2].pc = "done"
    /\ \E i \in 1..Len(users) :
          /\ users[i].Username = requests[1].Username
          /\ users[i].Username = requests[2].Username
          /\ users[i].FavoriteMovies = <<"m2", "m1">>

\* How far an invocation has come: waiting for the fetch, for the transform,
\* for the store, or ended.
Rank(pc) ==
    CASE pc = "getObject" -> 1
      [] pc = "sharp" -> 2
      [] pc = "putObject" -> 3
      [] OTHER -> 4

\* The invocation has ended: it waits for no call.
Ended(inv) == inv.pc \notin {"getObject", "sharp", "putObject"}

\* C21: every step of an invocation takes it forward, an invocation calls
\* putObject only after it has fetched an object and resized it, the bucket
\* changes only in the step that settles a putObject, and every invocation
\* that has ended, for every event, has returned a status code with a
\* message.
C21_ForwardToStatus ==
    [][\A i \in 1..Len(invocations') :
          LET inv == invocations'[i] IN
          /\ i <= Len(invocations)
                => /\ Rank(inv.pc) >= Rank(invocations[i].pc)
                   /\ inv # invocations[i] => Rank(inv.pc) > Rank(invocations[i].pc)
          /\ (\E k \in 1..Len(inv.calls) : inv.calls[k] = "putObject")
                => /\ inv.calls = <<"getObject", "putObject">>
                   /\ inv.Body.format \in {"jpeg", "png", "gif"}
                   /\ inv.resized.format = inv.Body.format
          /\ (invocations' # invocations /\ bucket' # bucket)
                => \E k \in 1..Len(invocations) :
                      invocations[k].pc = "putObject" /\ invocations'[k].pc = "returned"
          /\ Ended(inv)
                => /\ inv.result.statusCode \in {200, 500}
                   /\ inv.result.body # ""]_vars

\* C22: every object the handler writes has a key that starts with
\* 'resized-images/' and not with 'original-images/'; an invocation for the
\* key of such an object returns 'File skipped' from its first step, which
\* leaves the bucket as it was, and calls the bucket neither to fetch nor
\* to write; no invocation calls putObject more than once.  The invocations
\* that follow one upload therefore write one object at most.
C22_NoFeedbackLoop ==
    [][/\ invocations' # invocations
          => \A o \in bucket' \ bucket :
                /\ o.Key[1] = "resized-images" /\ o.Key[2] = "/"
                /\ o.Key[1] # "original-images"
       /\ \A i \in 1..Len(invocations') :
             LET inv == invocations'[i] IN
             /\ Cardinality({k \in 1..Len(inv.calls) : inv.calls[k] = "putObject"}) <= 1
             /\ (inv.pc # "rejected" /\ InOutputNamespace(inv.key))
                   => /\ inv.pc = "returned"
                      /\ inv.result = Result(200, "File skipped")
                      /\ inv.calls = <<>>
                      /\ Starts(i) => bucket' = bucket]_vars

\* An upload was accepted, the invocation for its object has written the
\* resized image, and the invocation for that output was skipped.
C22_Witness ==
    /\ upload.status = 200
    /\ Len(invocations) = 2
    /\ Wrote(1)
    /\ InInputNamespace(invocations[1].key)
    /\ Output(1) \in bucket
    /\ invocations[2].key = invocations[1].outputKey
    /\ invocations[2].result = Result(200, "File skipped")
    /\ invocations[2].calls = <<>>

====
